---------------------------- MODULE Spec2Model ----------------------------
(***************************************************************************)
(* A model of the close-approach search engine of                          *)
(* src/collision_detector.py (class CollisionDetector) together with the   *)
(* ephemeris interface of src/sgp4_gp_api.py it calls.                     *)
(*                                                                         *)
(* Units.  Distances and positions are integers in metres (1 km = 1000),   *)
(* so that 9.999 km, 10.000 km and 50.001 km are distinct values.  Times   *)
(* and offsets are integers in seconds.                                    *)
(***************************************************************************)
EXTENDS Integers, Sequences, FiniteSets, TLC

VARIABLES
    satellites,           \* propagator.satellites: catalog id -> GP record
    filtered_satellites,  \* detector.filtered_satellites: ids, insertion order
    close_approaches,     \* detector.close_approaches: sequence of records
    args,                 \* the run's arguments (target, start time, hours, ...)
    pc,                   \* "idle" | "scanning": position inside scan_for_target
    other_objects,        \* the pairs scan_for_target has still to process
    total_minima_found,   \* local of scan_for_target
    min_distance_seen,    \* local of scan_for_target
    ret,                  \* what the last scan_for_target returned
    log,                  \* messages printed by the current/last scan
    filter_ret,           \* what the last filter_satellites_by_epoch returned
    skipped,              \* local "skipped" of the last filter call
    brent,                \* what the (deterministic) minimizer answered so far
    searched,             \* history: the pairs processed by the current scan
    scans,                \* number of scans started
    returned,             \* the lists the scans returned so far, oldest first
    call                  \* a direct call of a pure method (SpecDedup, SpecSeg)

vars == << satellites, filtered_satellites, close_approaches, args, pc,
           other_objects, total_minima_found, min_distance_seen, ret, log,
           filter_ret, skipped, brent, searched, scans, returned, call >>

---------------------------------------------------------------------------
(* Bounds of the model *)

MaxScans == 2     \* scan_for_target calls in one behaviour
MaxLen == 3       \* length of a list given to _remove_duplicate_minima
MaxHours == 26    \* window lengths 0..MaxHours for the segmentation

(* Program constants *)

RedLimit == 10000          \* alert_level: distance_km < 10.0
YellowLimit == 25000       \* alert_level: distance_km < 25.0
SegmentHours == 4          \* segment_hours
MergeWindow == 300         \* threshold_seconds of _remove_duplicate_minima
Hour == 3600
Day == 86400
Infinity == 1000000000     \* float('inf'): above every distance of the model
threshold_km == 50000      \* --threshold default 50.0
min_distance_km == 100     \* --min-distance default 0.1
max_epoch_age_days == 1    \* --max-epoch-age default 1.0

(* The catalog ids of the model *)
Sats == { 1, 2, 3 }

---------------------------------------------------------------------------
(* Small helpers *)

Abs(x) == IF x < 0 THEN -x ELSE x

Min2(a, b) == IF a <= b THEN a ELSE b

Max2(a, b) == IF a >= b THEN a ELSE b

SetMin(S) == CHOOSE x \in S : \A y \in S : x <= y

Range(s) == { s[i] : i \in 1..Len(s) }

RECURSIVE Concat(_)
Concat(ss) == IF ss = << >> THEN << >> ELSE Head(ss) \o Concat(Tail(ss))

(* The keys of a dict whose entries were inserted in ascending id order. *)
RECURSIVE KeysFrom(_, _)
KeysFrom(d, k) ==
    IF \A j \in Sats : j < k THEN << >>
    ELSE (IF k \in DOMAIN d THEN << k >> ELSE << >>) \o KeysFrom(d, k + 1)

DictOrder(d) == KeysFrom(d, 1)

---------------------------------------------------------------------------
(* Ephemeris access: SGP4PropagatorGP.propagate                            *)
(*                                                                         *)
(* The orbital dynamics are external.  Every catalogued object flies a     *)
(* track: a one-dimensional trajectory, periodic with period two days,     *)
(* made of passes << time, position >> near the origin, approached and     *)
(* left at Speed metres per second, and of the times at which SGP4 reports *)
(* an error code.  Object 1 stays at the origin.                           *)

Speed == 1000      \* metres per second
Far == 500000      \* position away from every pass

Period == 2 * Day

Tracks ==
    [ O |-> [ passes |-> { }, fails |-> { } ],
      W |-> [ passes |-> { << 150, 5000 >>, << 9000, 50000 >>,
                           << 14250, 30000 >>,
                           << Day + 17850, 50 >>, << Day + 18150, 12000 >>,
                           << Day + 27000, 50001 >> },
              fails  |-> { } ],
      X |-> [ passes |-> { << 18000, 12000 >>, << 27000, 5000 >>,
                           << Day + 9000, 100000 >>, << Day + 27000, 20000 >> },
              fails  |-> { 26850, Day + 150 } ] ]

TrackOf(cat_num) ==
    CASE cat_num = 1 -> "O"
      [] cat_num = 2 -> "W"
      [] OTHER       -> "X"

TrackPosition(track, t) ==
    LET tm == t % Period
        P  == Tracks[track].passes
    IN  IF P = { } THEN 0
        ELSE Min2(Far, SetMin({ p[2] + Speed * Abs(tm - p[1]) : p \in P }))

(* propagate(satellite, dt): a position, or ValueError on an SGP4 error. *)
Propagate(sat, t) ==
    IF (t % Period) \in Tracks[sat.track].fails
    THEN [ ok |-> FALSE, pos |-> 0 ]
    ELSE [ ok |-> TRUE, pos |-> TrackPosition(sat.track, t) ]

(* np.linalg.norm(pos1 - pos2) *)
Norm(p1, p2) == Abs(p1 - p2)

(* An EPOCH string: its form and, when well formed, the instant it names.  *)
(* "Z" ends with Z, "offset" carries a UTC offset, "naive" names no zone,  *)
(* "garbage" is no ISO timestamp.                                          *)
EpochStr(form, t) == [ form |-> form, t |-> t ]

(* The epochs object cat_num may be catalogued with: at the first start    *)
(* time the first is new and the second exactly one day old, at the second *)
(* start time the first is exactly one day old and the second two days.    *)
EpochChoices(cat_num) ==
    { EpochStr("Z", 0),
      EpochStr(IF cat_num % 2 = 0 THEN "offset" ELSE "naive", 0 - Day),
      EpochStr("garbage", 0) }

(* The GP records object cat_num may be catalogued with. *)
GPChoices(cat_num) ==
    { [ epoch |-> e, track |-> TrackOf(cat_num) ] : e \in EpochChoices(cat_num) }

StartTimes == { 0, Day }
HoursChoices == { 3, 10 }
ScreeningChoices == { 50000, 100000 }

---------------------------------------------------------------------------
(* Epoch filter *)

(* _parse_epoch: the instant of a well-formed timestamp (read as UTC when  *)
(* it names no zone); datetime.fromisoformat raises on anything else.     *)
ParseEpoch(epoch_str) ==
    CASE epoch_str.form = "Z"      -> [ ok |-> TRUE, t |-> epoch_str.t ]
      [] epoch_str.form = "offset" -> [ ok |-> TRUE, t |-> epoch_str.t ]
      [] epoch_str.form = "naive"  -> [ ok |-> TRUE, t |-> epoch_str.t ]
      [] OTHER                     -> [ ok |-> FALSE, t |-> 0 ]

(* Faulty variant: the age bound taken as exclusive. *)
EpochFreshStrict(age_seconds) == age_seconds < max_epoch_age_days * Day

(* age_days <= self.max_epoch_age_days, with age_days the age in seconds   *)
(* divided by 86400.0                                                      *)
EpochFresh(age_seconds) == age_seconds <= max_epoch_age_days * Day

(* Faulty variant: an epoch that does not parse ends the loop. *)
RECURSIVE FilterLoopAbort(_, _, _)
FilterLoopAbort(cat, ids, reference_time) ==
    IF ids = << >> THEN [ kept |-> << >>, skipped |-> 0 ]
    ELSE LET rest     == FilterLoopAbort(cat, Tail(ids), reference_time)
             cat_num  == Head(ids)
             epoch_dt == ParseEpoch(cat[cat_num].epoch)
         IN  IF ~ epoch_dt.ok THEN [ kept |-> << >>, skipped |-> 1 ]
             ELSE IF EpochFresh(reference_time - epoch_dt.t)
             THEN [ kept |-> << cat_num >> \o rest.kept,
                    skipped |-> rest.skipped ]
             ELSE [ kept |-> rest.kept, skipped |-> rest.skipped + 1 ]

(* The loop of filter_satellites_by_epoch over the catalog entries `ids`,  *)
(* from the empty dict: the ids kept, in order, and the skipped count.     *)
RECURSIVE FilterLoop(_, _, _)
FilterLoop(cat, ids, reference_time) ==
    IF ids = << >> THEN [ kept |-> << >>, skipped |-> 0 ]
    ELSE LET rest     == FilterLoop(cat, Tail(ids), reference_time)
             cat_num  == Head(ids)
             epoch_dt == ParseEpoch(cat[cat_num].epoch)
         IN  IF epoch_dt.ok /\ EpochFresh(reference_time - epoch_dt.t)
             THEN [ kept |-> << cat_num >> \o rest.kept,
                    skipped |-> rest.skipped ]
             ELSE [ kept |-> rest.kept, skipped |-> rest.skipped + 1 ]

FilterSatellitesByEpoch(cat, reference_time) ==
    FilterLoop(cat, DictOrder(cat), reference_time)

---------------------------------------------------------------------------
(* Segmented minimum search: _find_minimum_distance_brent *)

(* Faulty variant: the error of the propagator is not looked at. *)
DistanceAtOffsetUnguarded(target_sat, other_sat, start_time, offset_seconds) ==
    Norm(Propagate(target_sat, start_time + offset_seconds).pos,
         Propagate(other_sat, start_time + offset_seconds).pos)

(* distance_at_offset: the distance of the pair at start_time + offset,    *)
(* float('inf') when either propagation raises ValueError.                 *)
DistanceAtOffset(target_sat, other_sat, start_time, offset_seconds) ==
    LET t  == start_time + offset_seconds
        r1 == Propagate(target_sat, t)
        r2 == Propagate(other_sat, t)
    IN  IF r1.ok /\ r2.ok THEN Norm(r1.pos, r2.pos) ELSE Infinity

(* Faulty variant: the count rounded up, leaving a trailing short segment. *)
NumSegmentsCeil(duration_seconds) ==
    Max2(1, ((duration_seconds \div Hour) + SegmentHours - 1) \div SegmentHours)

(* num_segments = max(1, int(duration_seconds / 3600 / segment_hours)) *)
NumSegments(duration_seconds) ==
    Max2(1, (duration_seconds \div Hour) \div SegmentHours)

(* Faulty variant: segments of segment_hours each, whatever the window. *)
SegmentSizeFixed(duration_seconds) == SegmentHours * Hour

(* segment_size = duration_seconds / num_segments.  For the windows of the *)
(* model (at most 27 hours, so at most 6 segments) the quotient is a whole *)
(* number of seconds.                                                      *)
SegmentSize(duration_seconds) ==
    duration_seconds \div NumSegments(duration_seconds)

SegmentStart(i, segment_size) == i * segment_size

SegmentEnd(i, segment_size) == (i + 1) * segment_size

(* The bounds of the segments visited by `for i in range(num_segments)`. *)
Segments(duration_seconds) ==
    [ i \in 1..NumSegments(duration_seconds) |->
        [ start |-> SegmentStart(i - 1, SegmentSize(duration_seconds)),
          end   |-> SegmentEnd(i - 1, SegmentSize(duration_seconds)) ] ]

(* The bounded scalar minimizer (scipy's minimize_scalar) is external; the *)
(* model lets it sample the interval at its ends, its middle and half a    *)
(* merge window inside each end, with the two neighbours of each of these  *)
(* points, all clipped to the bounds.                                      *)
Near == MergeWindow \div 2

SampleOffsets(a, b) ==
    LET anchors == { a + Near, (a + b) \div 2, b - Near }
    IN  { x \in { a, b } \cup anchors
                \cup { y - Near : y \in anchors } \cup { y + Near : y \in anchors } :
          a <= x /\ x <= b }

(* The samples that are a local minimum of f over the samples of [a, b];   *)
(* the leftmost sample of a plateau stands for the plateau.                *)
LocalMinima(f, a, b) ==
    LET S == SampleOffsets(a, b)
        Prev(x) == { y \in S : y < x /\ \A z \in S : ~(y < z /\ z < x) }
        Next_(x) == { y \in S : x < y /\ \A z \in S : ~(x < z /\ z < y) }
    IN  { x \in S : /\ \A y \in Prev(x) : f[x] < f[y]
                    /\ \A y \in Next_(x) : f[x] <= f[y] }

(* minimize_scalar(f, bounds=(a, b), method='bounded'): the location and   *)
(* value of a local minimum inside the bounds, or an exception.            *)
MinimizeScalar(f, a, b) ==
    { [ ok |-> TRUE, x |-> x, fun |-> f[x] ] : x \in LocalMinima(f, a, b) }
        \cup { [ ok |-> FALSE, x |-> a, fun |-> Infinity ] }

(* The function handed to the minimizer for one segment of one pair. *)
SegmentFunction(target_sat, other_sat, start_time, seg) ==
    [ x \in SampleOffsets(seg.start, seg.end) |->
        DistanceAtOffset(target_sat, other_sat, start_time, x) ]

(* Faulty variant: a value equal to the screening threshold is recorded. *)
ScreenedInclusive(result, screening_threshold_km) ==
    result.ok /\ result.fun <= screening_threshold_km

(* if result.fun < screening_threshold_km: all_minima.append(...) *)
Screened(result, screening_threshold_km) ==
    result.ok /\ result.fun < screening_threshold_km

(* Faulty variant: every answer of the minimizer is a candidate, whatever  *)
(* its value.                                                              *)
RECURSIVE CollectMinimaUnscreened(_, _)
CollectMinimaUnscreened(results, screening_threshold_km) ==
    IF results = << >> THEN << >>
    ELSE (IF Head(results).ok
          THEN << << Head(results).x, Head(results).fun >> >>
          ELSE << >>)
         \o CollectMinimaUnscreened(Tail(results), screening_threshold_km)

(* Faulty variant: the first failed segment ends the search of the pair. *)
RECURSIVE CollectMinimaAbort(_, _)
CollectMinimaAbort(results, screening_threshold_km) ==
    IF results = << >> \/ ~ Head(results).ok THEN << >>
    ELSE (IF Head(results).fun < screening_threshold_km
          THEN << << Head(results).x, Head(results).fun >> >>
          ELSE << >>)
         \o CollectMinimaAbort(Tail(results), screening_threshold_km)

(* all_minima, given the minimizer's answer for each segment in turn. *)
RECURSIVE CollectMinima(_, _)
CollectMinima(results, screening_threshold_km) ==
    IF results = << >> THEN << >>
    ELSE (IF Screened(Head(results), screening_threshold_km)
          THEN << << Head(results).x, Head(results).fun >> >>
          ELSE << >>)
         \o CollectMinima(Tail(results), screening_threshold_km)

---------------------------------------------------------------------------
(* Minima deduplicator: _remove_duplicate_minima                           *)
(* A minimum is a pair << offset_seconds, distance >>.                     *)

(* sorted(minima, key=lambda x: x[0]): stable, by insertion from the left. *)
RECURSIVE InsertByOffset(_, _)
InsertByOffset(m, sorted) ==
    IF sorted = << >> THEN << m >>
    ELSE IF Head(sorted)[1] <= m[1]
         THEN << Head(sorted) >> \o InsertByOffset(m, Tail(sorted))
         ELSE << m >> \o sorted

(* Faulty variant: the candidates are taken in the order given. *)
SortByOffsetOmitted(minima) == minima

RECURSIVE SortByOffset(_)
SortByOffset(minima) ==
    IF minima = << >> THEN << >>
    ELSE InsertByOffset(minima[Len(minima)],
                        SortByOffset(SubSeq(minima, 1, Len(minima) - 1)))

(* min(current_group, key=lambda x: x[1]): the first of the smallest. *)
MinByDistance(group) ==
    LET i == CHOOSE i \in 1..Len(group) :
                 /\ \A j \in 1..Len(group) : group[i][2] <= group[j][2]
                 /\ \A j \in 1..(i - 1) : group[j][2] > group[i][2]
    IN  group[i]

(* Faulty variant: the merge window taken as exclusive. *)
SameEventStrict(m, last, threshold_seconds) ==
    m[1] - last[1] < threshold_seconds

(* sorted_minima[i][0] - current_group[-1][0] <= threshold_seconds *)
SameEvent(m, last, threshold_seconds) == m[1] - last[1] <= threshold_seconds

(* Faulty variant: the first member of the group is the one compared with. *)
FirstOfGroup(current_group) == current_group[1]

(* current_group[-1] *)
LastOfGroup(current_group) == current_group[Len(current_group)]

(* The loop `for i in range(1, len(sorted_minima))` from index i on, with  *)
(* the groups closed so far and the open group, and the final append.      *)
RECURSIVE GroupLoop(_, _, _, _, _)
GroupLoop(sorted_minima, i, unique, current_group, threshold_seconds) ==
    IF i > Len(sorted_minima)
    THEN Append(unique, MinByDistance(current_group))
    ELSE IF SameEvent(sorted_minima[i], LastOfGroup(current_group),
                      threshold_seconds)
         THEN GroupLoop(sorted_minima, i + 1, unique,
                        Append(current_group, sorted_minima[i]),
                        threshold_seconds)
         ELSE GroupLoop(sorted_minima, i + 1,
                        Append(unique, MinByDistance(current_group)),
                        << sorted_minima[i] >>, threshold_seconds)

RemoveDuplicateMinima(minima, threshold_seconds) ==
    IF minima = << >> THEN << >>
    ELSE LET sorted_minima == SortByOffset(minima)
         IN  GroupLoop(sorted_minima, 2, << >>, << sorted_minima[1] >>,
                       threshold_seconds)

---------------------------------------------------------------------------
(* Close-approach classifier *)

(* CloseApproach.alert_level *)
AlertLevel(distance_km) ==
    IF distance_km < RedLimit THEN "RED"
    ELSE IF distance_km < YellowLimit THEN "YELLOW"
    ELSE "GREEN"

(* Faulty variants: the band without its upper, or its lower, bound. *)
InBandNoCeiling(distance) == min_distance_km <= distance

InBandNoFloor(distance) == distance <= threshold_km

(* if self.min_distance_km <= distance <= self.threshold_km *)
InBand(distance) == min_distance_km <= distance /\ distance <= threshold_km

(* Faulty variant: a ValueError at a TCA ends the loop over the candidates *)
(* of the pair.                                                            *)
RECURSIVE ClassifyAbort(_, _, _, _, _, _)
ClassifyAbort(unique_minima, target_catalog, target_sat, other_catalog, other_sat, start_time) ==
    IF unique_minima = << >> THEN << >>
    ELSE LET tca == start_time + Head(unique_minima)[1]
             r1  == Propagate(target_sat, tca)
             r2  == Propagate(other_sat, tca)
             distance == Norm(r1.pos, r2.pos)
             rest == ClassifyAbort(Tail(unique_minima), target_catalog, target_sat,
                                   other_catalog, other_sat, start_time)
         IN  IF ~ (r1.ok /\ r2.ok) THEN << >>
             ELSE IF InBand(distance)
             THEN << [ tca |-> tca,
                       sat1_catalog |-> target_catalog,
                       sat2_catalog |-> other_catalog,
                       distance_km |-> distance ] >> \o rest
             ELSE rest

(* The body of `for offset_seconds, _ in unique_minima`: the records the   *)
(* candidates add to close_approaches, in order.  A ValueError of either   *)
(* propagation at the TCA skips the candidate.                             *)
RECURSIVE Classify(_, _, _, _, _, _)
Classify(unique_minima, target_catalog, target_sat, other_catalog, other_sat, start_time) ==
    IF unique_minima = << >> THEN << >>
    ELSE LET tca == start_time + Head(unique_minima)[1]
             r1  == Propagate(target_sat, tca)
             r2  == Propagate(other_sat, tca)
             distance == Norm(r1.pos, r2.pos)
             rest == Classify(Tail(unique_minima), target_catalog, target_sat,
                              other_catalog, other_sat, start_time)
         IN  IF r1.ok /\ r2.ok /\ InBand(distance)
             THEN << [ tca |-> tca,
                       sat1_catalog |-> target_catalog,
                       sat2_catalog |-> other_catalog,
                       distance_km |-> distance ] >> \o rest
             ELSE rest

(* Faulty variant: the docked candidates take part in the minimum. *)
NonDockedMinAll(all_minima) ==
    IF all_minima = << >> THEN Infinity
    ELSE SetMin({ all_minima[i][2] : i \in 1..Len(all_minima) })

(* Statistics of one pair: min(non_docked) or float('inf'). *)
NonDockedMin(all_minima) ==
    LET non_docked == { all_minima[i][2] :
                          i \in { j \in 1..Len(all_minima) :
                                     all_minima[j][2] >= min_distance_km } }
    IN  IF non_docked = { } THEN Infinity ELSE SetMin(non_docked)

---------------------------------------------------------------------------
(* Scan orchestrator: scan_for_target *)

EmptyDict == [ k \in { } |-> 0 ]

(* The messages scan_for_target prints about its working set. *)
MsgNotFound == "ERROR: Target satellite not found!"
MsgExcluded == "WARNING: Target excluded by epoch filter, adding it back"
MsgNoOthers == "WARNING: No other objects to check!"

NoCall == [ fn |-> "none" ]

(* The set of sequences whose i-th member is drawn from choices[i]. *)
RECURSIVE SeqProduct(_)
SeqProduct(choices) ==
    IF choices = << >> THEN { << >> }
    ELSE { << h >> \o t : h \in Head(choices), t \in SeqProduct(Tail(choices)) }

(* The minimizer is a pure function of the function and the bounds it is   *)
(* given: asked again about the same pair and segment, it answers the same *)
BrentKey(target_catalog, other_catalog, seg) ==
    << target_catalog, other_catalog, seg.start, seg.end >>

(* MinimizeScalar tabulated: the distance function of a segment depends   *)
(* on the tracks of the two objects, the start time and the segment only,  *)
(* so the possible answers are computed once for each of these.            *)
MinimizerTable ==
    [ key \in (DOMAIN Tracks) \X (DOMAIN Tracks) \X StartTimes
               \X (UNION { Range(Segments(h * Hour)) : h \in HoursChoices }) |->
        MinimizeScalar(
          SegmentFunction([ track |-> key[1] ], [ track |-> key[2] ], key[3], key[4]),
          key[4].start, key[4].end) ]

(* The answers the minimizer may give for the segments of one pair. *)
BrentAnswers(target_catalog, other_catalog, start_time, duration_seconds) ==
    LET segs == Segments(duration_seconds)
    IN  SeqProduct(
          [ i \in 1..Len(segs) |->
              IF BrentKey(target_catalog, other_catalog, segs[i]) \in DOMAIN brent
              THEN { brent[BrentKey(target_catalog, other_catalog, segs[i])] }
              ELSE MinimizerTable[<< satellites[target_catalog].track,
                                     satellites[other_catalog].track,
                                     start_time, segs[i] >>] ])

(* The answers known after the pair's segments were answered by `results`. *)
Remember(target_catalog, other_catalog, segs, results) ==
    LET keys == { BrentKey(target_catalog, other_catalog, segs[i]) :
                    i \in 1..Len(segs) }
    IN  [ k \in DOMAIN brent \cup keys |->
            IF k \in DOMAIN brent THEN brent[k]
            ELSE results[CHOOSE i \in 1..Len(segs) :
                           BrentKey(target_catalog, other_catalog, segs[i]) = k] ]

(* Faulty variant: the whole catalog is searched whatever the filter kept. *)
SatellitesToUseCatalog(kept) == DictOrder(satellites)

(* Faulty variant: the filtered dict is used even when it is empty. *)
SatellitesToUseKept(kept) == kept

(* The working set of a scan: the filtered dict, or the whole catalog when *)
(* the filter kept nothing (satellites_to_use is then the catalog itself). *)
SatellitesToUse(kept) ==
    IF kept # << >> THEN kept ELSE DictOrder(satellites)

(* Faulty variant: the membership test of the target is left out. *)
TargetNeverMissing(to_use, target_catalog) == FALSE

(* if target_catalog not in satellites_to_use *)
TargetMissing(to_use, target_catalog) == target_catalog \notin Range(to_use)

(* if target_catalog in self.propagator.satellites *)
TargetInCatalog(target_catalog) == target_catalog \in DOMAIN satellites

(* Faulty variant: the target is warned about but not added back. *)
ForceIncludeOmitted(to_use, target_catalog) == to_use

(* satellites_to_use[target_catalog] = ...: the target is added back. *)
ForceInclude(to_use, target_catalog) ==
    IF TargetMissing(to_use, target_catalog) /\ TargetInCatalog(target_catalog)
    THEN Append(to_use, target_catalog)
    ELSE to_use

(* Faulty variant: the target stays among the objects to pair it with. *)
OtherObjectsAll(working, target_catalog) == working

(* Faulty variant: only the first of the other objects is kept. *)
OtherObjectsFirstOnly(working, target_catalog) ==
    LET others == SelectSeq(working, LAMBDA k : k # target_catalog)
    IN  IF others = << >> THEN << >> ELSE << others[1] >>

(* other_objects: the working set without the target. *)
OtherObjects(working, target_catalog) ==
    SelectSeq(working, LAMBDA k : k # target_catalog)

(* Faulty variant: the filter prunes the catalog itself, and the target is *)
(* added back to it.                                                       *)
CatalogPruned(cat, kept, target_catalog) ==
    [ k \in (Range(kept) \cup { target_catalog }) \cap DOMAIN cat |-> cat[k] ]

(* propagator.satellites after lines 208-221.  The one assignment to a     *)
(* dict is satellites_to_use[target_catalog] = ... (line 218); it lands in *)
(* the catalog when satellites_to_use is the catalog itself (the filter    *)
(* kept nothing), and in filtered_satellites otherwise.                    *)
CatalogAfterStart(cat, kept, target_catalog) ==
    IF /\ kept = << >>
       /\ TargetMissing(SatellitesToUse(kept), target_catalog)
       /\ TargetInCatalog(target_catalog)
    THEN (target_catalog :> cat[target_catalog]) @@ cat
    ELSE cat

(* Faulty variant: the records of the scan before are kept. *)
KeepApproaches(approaches) == approaches

(* self.close_approaches = [] *)
ResetApproaches(approaches) == << >>

(* Lines 208-246: reset, filter, choice of the working set, resolution of  *)
(* the target; the scan returns at once when the target is not found.      *)
StartScan ==
    /\ pc = "idle"
    /\ scans < MaxScans
    /\ LET f       == FilterSatellitesByEpoch(satellites, args.start_time)
           aliased == f.kept = << >>
           to_use  == SatellitesToUse(f.kept)
           missing == TargetMissing(to_use, args.target_catalog)
           found   == TargetInCatalog(args.target_catalog)
           working == ForceInclude(to_use, args.target_catalog)
           others  == OtherObjects(working, args.target_catalog)
       IN  /\ close_approaches' = ResetApproaches(close_approaches)
           /\ filter_ret' = [ reference_time |-> args.start_time,
                               value |-> Len(f.kept) ]
           /\ skipped' = f.skipped
           /\ filtered_satellites' = IF aliased THEN f.kept ELSE working
           /\ satellites' = CatalogAfterStart(satellites, f.kept, args.target_catalog)
           /\ scans' = scans + 1
           /\ searched' = << >>
           /\ IF missing /\ ~found
              THEN /\ log' = { MsgNotFound }
                   /\ ret' = [ called |-> TRUE, value |-> << >> ]
                   /\ returned' = Append(returned, << >>)
                   /\ pc' = "idle"
                   /\ other_objects' = << >>
                   /\ UNCHANGED << total_minima_found, min_distance_seen >>
              ELSE /\ log' = (IF missing
                              THEN { MsgExcluded }
                              ELSE { })
                             \cup (IF others = << >>
                                   THEN { MsgNoOthers }
                                   ELSE { })
                   /\ ret' = [ called |-> FALSE, value |-> << >> ]
                   /\ UNCHANGED returned
                   /\ pc' = "scanning"
                   /\ other_objects' = others
                   /\ total_minima_found' = 0
                   /\ min_distance_seen' = Infinity
    /\ UNCHANGED << args, brent, call >>

(* Lines 248-295: one iteration of the loop over other_objects. *)
ScanPair ==
    /\ pc = "scanning"
    /\ other_objects # << >>
    /\ LET target_catalog   == args.target_catalog
           other_catalog    == Head(other_objects)
           target_sat       == satellites[target_catalog]
           other_sat        == satellites[other_catalog]
           duration_seconds == args.hours * Hour
           segs             == Segments(duration_seconds)
       IN  \E results \in BrentAnswers(target_catalog, other_catalog,
                                       args.start_time, duration_seconds) :
             \E all_minima \in { CollectMinima(results, args.screening_threshold_km) } :
             \E unique_minima \in { RemoveDuplicateMinima(all_minima, MergeWindow) } :
             LET min_dist == NonDockedMin(all_minima)
             IN  /\ total_minima_found' = total_minima_found + Len(all_minima)
                 /\ min_distance_seen' = Min2(min_dist, min_distance_seen)
                 /\ close_approaches' = close_approaches \o
                        Classify(unique_minima, target_catalog, target_sat,
                                 other_catalog, other_sat, args.start_time)
                 /\ brent' = Remember(target_catalog, other_catalog, segs, results)
                 /\ searched' = Append(searched,
                                   [ other |-> other_catalog,
                                     results |-> results,
                                     all_minima |-> all_minima,
                                     unique_minima |-> unique_minima ])
    /\ other_objects' = Tail(other_objects)
    /\ UNCHANGED << satellites, filtered_satellites, args, pc, ret, log,
                    filter_ret, skipped, scans, returned, call >>

(* Lines 297-326: the statistics are printed and the list is returned. *)
FinishScan ==
    /\ pc = "scanning"
    /\ other_objects = << >>
    /\ pc' = "idle"
    /\ ret' = [ called |-> TRUE, value |-> close_approaches ]
    /\ returned' = Append(returned, close_approaches)
    /\ UNCHANGED << satellites, filtered_satellites, close_approaches, args,
                    other_objects, total_minima_found, min_distance_seen, log,
                    filter_ret, skipped, brent, searched, scans, call >>

(* A call of filter_satellites_by_epoch by the detector's user. *)
FilterCall ==
    /\ pc = "idle"
    /\ \E reference_time \in StartTimes :
         LET f == FilterSatellitesByEpoch(satellites, reference_time)
         IN  /\ filtered_satellites' = f.kept
             /\ filter_ret' = [ reference_time |-> reference_time,
                                 value |-> Len(f.kept) ]
             /\ skipped' = f.skipped
    /\ UNCHANGED << satellites, close_approaches, args, pc, other_objects,
                    total_minima_found, min_distance_seen, ret, log, brent,
                    searched, scans, returned, call >>

(* The state after CollisionDetector(propagator, ...) on a loaded catalog, *)
(* with the arguments of the run parsed.                                   *)
Catalogs ==
    { cat \in UNION { [ D -> UNION { GPChoices(k) : k \in D } ] : D \in SUBSET Sats } :
        \A k \in DOMAIN cat : cat[k] \in GPChoices(k) }

Arguments ==
    [ target_catalog : Sats, start_time : StartTimes, hours : HoursChoices,
      screening_threshold_km : ScreeningChoices ]

InitDetector ==
    /\ filtered_satellites = << >>
    /\ close_approaches = << >>
    /\ pc = "idle"
    /\ other_objects = << >>
    /\ total_minima_found = 0
    /\ min_distance_seen = Infinity
    /\ ret = [ called |-> FALSE, value |-> << >> ]
    /\ log = { }
    /\ filter_ret = [ reference_time |-> 0, value |-> 0 ]
    /\ skipped = 0
    /\ brent = EmptyDict
    /\ searched = << >>
    /\ scans = 0
    /\ returned = << >>

Init ==
    /\ satellites \in Catalogs
    /\ args \in Arguments
    /\ InitDetector
    /\ call = NoCall

Next == StartScan \/ ScanPair \/ FinishScan \/ FilterCall

Spec == Init /\ [][Next]_vars

(* Runs on a catalog holding all three objects, scanning for object 1 over *)
(* ten hours (two segments) with the wider screening threshold; the epochs *)
(* and the start time vary, so the filter keeps every subset of objects.   *)
InitFair ==
    /\ Init
    /\ DOMAIN satellites = Sats
    /\ args.target_catalog = 1
    /\ args.hours = 10
    /\ args.screening_threshold_km = 100000

(* The loop over other_objects is sequential code: once entered, it takes  *)
(* its next iteration, and the statements after it are executed.           *)
SpecFair == InitFair /\ [][Next]_vars /\ WF_vars(ScanPair) /\ WF_vars(FinishScan)

---------------------------------------------------------------------------
(* Direct calls of the pure methods, on inputs drawn from bounded sets. *)

detector == << satellites, filtered_satellites, close_approaches, args, pc,
               other_objects, total_minima_found, min_distance_seen, ret, log,
               filter_ret, skipped, brent, searched, scans, returned >>

InitIdle ==
    /\ satellites = EmptyDict
    /\ args = [ target_catalog |-> 1, start_time |-> 0, hours |-> 10,
                screening_threshold_km |-> 100000 ]
    /\ InitDetector

OffsetChoices == { 0, 100, 250, 350, 400, 401, 500 }
DistanceChoices == { 8000, 12000 }
MinimumChoices == OffsetChoices \X DistanceChoices

MinimaLists == UNION { [ 1..n -> MinimumChoices ] : n \in 0..MaxLen }

InitDedup ==
    /\ InitIdle
    /\ \E m \in MinimaLists :
         call = [ fn |-> "_remove_duplicate_minima", minima |-> m,
                  done |-> FALSE, unique |-> << >> ]

DedupCall ==
    /\ call.fn = "_remove_duplicate_minima"
    /\ ~call.done
    /\ call' = [ call EXCEPT !.done = TRUE,
                   !.unique = RemoveDuplicateMinima(call.minima, MergeWindow) ]
    /\ UNCHANGED detector

NextDedup == DedupCall

SpecDedup == InitDedup /\ [][NextDedup]_vars

(* The segmentation loop of _find_minimum_distance_brent (lines 147-153)   *)
(* for a window of `hours` hours, one segment per step.                    *)
InitSeg ==
    /\ InitIdle
    /\ \E h \in 0..MaxHours :
         call = [ fn |-> "segments", hours |-> h, i |-> 0, segs |-> << >> ]

SegmentStep ==
    /\ call.fn = "segments"
    /\ call.i < NumSegments(call.hours * Hour)
    /\ LET segment_size == SegmentSize(call.hours * Hour)
       IN  call' = [ call EXCEPT
                       !.i = call.i + 1,
                       !.segs = Append(call.segs,
                                  [ start |-> SegmentStart(call.i, segment_size),
                                    end   |-> SegmentEnd(call.i, segment_size) ]) ]
    /\ UNCHANGED detector

NextSeg == SegmentStep

SpecSeg == InitSeg /\ [][NextSeg]_vars

---------------------------------------------------------------------------
(* Reporting: save_results and print_summary *)

MaxRecords == 21   \* longest list of records handed to a report
Top == 20          \* sorted_approaches[:20]

(* level_order = {AlertLevel.RED: 0, AlertLevel.YELLOW: 1, AlertLevel.GREEN: 2} *)
LevelOrder(level) ==
    CASE level = "RED"    -> 0
      [] level = "YELLOW" -> 1
      [] level = "GREEN"  -> 2

(* Faulty variant: the key is the alert level alone. *)
SortKeyLevelOnly(a) == << LevelOrder(AlertLevel(a.distance_km)), 0 >>

(* key=lambda a: (level_order[a.alert_level], a.distance_km) *)
SortKey(a) == << LevelOrder(AlertLevel(a.distance_km)), a.distance_km >>

(* Comparison of two keys as Python compares tuples. *)
KeyLessEq(k1, k2) == k1[1] < k2[1] \/ (k1[1] = k2[1] /\ k1[2] <= k2[2])

RECURSIVE InsertByKey(_, _)
InsertByKey(a, sorted) ==
    IF sorted = << >> THEN << a >>
    ELSE IF KeyLessEq(SortKey(Head(sorted)), SortKey(a))
         THEN << Head(sorted) >> \o InsertByKey(a, Tail(sorted))
         ELSE << a >> \o sorted

RECURSIVE SortByKey(_)
SortByKey(approaches) ==
    IF approaches = << >> THEN << >>
    ELSE InsertByKey(approaches[Len(approaches)],
                     SortByKey(SubSeq(approaches, 1, Len(approaches) - 1)))

(* Faulty variant: the list is written in insertion order. *)
Unsorted(approaches) == approaches

(* sorted_approaches = sorted(self.close_approaches, key=...): stable. *)
SortedApproaches(approaches) == SortByKey(approaches)

(* save_results: the rows written after the header, in order. *)
SaveResults ==
    /\ pc = "idle"
    /\ call = NoCall
    /\ call' = [ fn |-> "save_results",
                 rows |-> SortedApproaches(close_approaches) ]
    /\ UNCHANGED detector

(* print_summary: nothing is listed for an empty list; otherwise the first *)
(* Top records of the sorted list are.                                     *)
PrintSummary ==
    /\ pc = "idle"
    /\ call = NoCall
    /\ call' = [ fn |-> "print_summary",
                 rows |-> IF close_approaches = << >> THEN << >>
                          ELSE SubSeq(SortedApproaches(close_approaches), 1,
                                      Min2(Top, Len(close_approaches))) ]
    /\ UNCHANGED detector

(* The distances of the records a report is called on: the lists take      *)
(* them in turn from here, starting at any of the first three.             *)
ReportDistances ==
    << 50000, 12000, 5000, 25000, 5000, 24999, 9999, 10000, 100 >>

ReportShifts == { 0, 1, 2, 3 }

(* A record of close_approaches as a scan of target 1 leaves it. *)
ReportRecord(i, shift) ==
    [ tca |-> i, sat1_catalog |-> 1, sat2_catalog |-> 2 + (i % 2),
      distance_km |-> ReportDistances[((i + shift) % Len(ReportDistances)) + 1] ]

ApproachLists ==
    { [ i \in 1..n |-> ReportRecord(i, shift) ] :
        n \in 0..MaxRecords, shift \in ReportShifts }

InitReport ==
    /\ satellites = EmptyDict
    /\ args = [ target_catalog |-> 1, start_time |-> 0, hours |-> 10,
                screening_threshold_km |-> 100000 ]
    /\ filtered_satellites = << >>
    /\ close_approaches \in ApproachLists
    /\ pc = "idle"
    /\ other_objects = << >>
    /\ total_minima_found = 0
    /\ min_distance_seen = Infinity
    /\ ret = [ called |-> FALSE, value |-> << >> ]
    /\ log = { }
    /\ filter_ret = [ reference_time |-> 0, value |-> 0 ]
    /\ skipped = 0
    /\ brent = EmptyDict
    /\ searched = << >>
    /\ scans = 0
    /\ returned = << >>
    /\ call = NoCall

NextReport == SaveResults \/ PrintSummary

SpecReport == InitReport /\ [][NextReport]_vars

---------------------------------------------------------------------------
(* The classification loop of scan_for_target (lines 272-295) on its own:  *)
(* the pairs of one scan in turn, each with a list of deduplicated         *)
(* candidates drawn from a bounded set.  The propagator is the one of the  *)
(* catalog tracks, so a candidate at an instant where a track has no       *)
(* solution raises ValueError at its TCA.                                  *)

TcaOffsets == { 150, 9000, 18000, 26850, 27000 }

(* What _remove_duplicate_minima returns: candidates in offset order, more *)
(* than the merge window apart; the second component is the distance the   *)
(* search reported, which the loop does not read.                          *)
CandidateLists ==
    { c \in UNION { [ 1..n -> TcaOffsets \X { 0 } ] : n \in 0..MaxLen } :
        \A j \in 1..(Len(c) - 1) : c[j + 1][1] - c[j][1] > MergeWindow }

FullCatalog == [ k \in Sats |-> [ epoch |-> EpochStr("Z", 0), track |-> TrackOf(k) ] ]

InitClassify ==
    /\ satellites = FullCatalog
    /\ \E t \in { 1, 3 }, s \in StartTimes :
         args = [ target_catalog |-> t, start_time |-> s, hours |-> 10,
                  screening_threshold_km |-> 100000 ]
    /\ InitDetector
    /\ \E c1, c2 \in CandidateLists :
         LET others == OtherObjects(<< 1, 2, 3 >>, args.target_catalog)
         IN  call = [ fn |-> "classify", i |-> 0,
                      pairs |-> << [ other |-> others[1], unique_minima |-> c1 ],
                                   [ other |-> others[2], unique_minima |-> c2 ] >> ]

(* One iteration of the loop over other_objects, from line 272 on. *)
ClassifyPair ==
    /\ call.fn = "classify"
    /\ call.i < Len(call.pairs)
    /\ LET pair == call.pairs[call.i + 1]
       IN  close_approaches' = close_approaches \o
              Classify(pair.unique_minima, args.target_catalog,
                       satellites[args.target_catalog], pair.other,
                       satellites[pair.other], args.start_time)
    /\ call' = [ call EXCEPT !.i = call.i + 1 ]
    /\ UNCHANGED << satellites, filtered_satellites, args, pc, other_objects,
                    total_minima_found, min_distance_seen, ret, log,
                    filter_ret, skipped, brent, searched, scans, returned >>

NextClassify == ClassifyPair

SpecClassify == InitClassify /\ [][NextClassify]_vars

---------------------------------------------------------------------------
(* The loop over other_objects (lines 248-295) followed by save_results,   *)
(* run twice on the same catalog with the other objects taken in two       *)
(* orders.  The search of a pair gives the same answer in both runs.       *)

(* The orders in which the objects of S can be iterated. *)
OrdersOf(S) ==
    { o \in [ 1..Cardinality(S) -> S ] :
        \A i, j \in 1..Cardinality(S) : o[i] = o[j] => i = j }

(* Lines 254-293 for one pair: the records its search results give. *)
PairRecords(other_catalog, results) ==
    Classify(RemoveDuplicateMinima(
               CollectMinima(results, args.screening_threshold_km), MergeWindow),
             args.target_catalog, satellites[args.target_catalog],
             other_catalog, satellites[other_catalog], args.start_time)

InitOrder ==
    /\ satellites = FullCatalog
    /\ \E t \in Sats, s \in StartTimes :
         args = [ target_catalog |-> t, start_time |-> s, hours |-> 10,
                  screening_threshold_km |-> 100000 ]
    /\ InitDetector
    /\ LET others == Sats \ { args.target_catalog }
       IN  \E a, b \in OrdersOf(others) :
           \E res \in [ others -> UNION { BrentAnswers(args.target_catalog, k,
                                            args.start_time, args.hours * Hour) :
                                          k \in others } ] :
             /\ \A k \in others :
                  res[k] \in BrentAnswers(args.target_catalog, k,
                                          args.start_time, args.hours * Hour)
             /\ call = [ fn |-> "orders", a |-> a, b |-> b, res |-> res, i |-> 0,
                         acc_a |-> << >>, acc_b |-> << >>, saved |-> FALSE,
                         rows_a |-> << >>, rows_b |-> << >> ]

(* One iteration of the loop in each of the two runs. *)
OrderPair ==
    /\ call.fn = "orders"
    /\ call.i < Len(call.a)
    /\ LET ka == call.a[call.i + 1]
           kb == call.b[call.i + 1]
       IN  call' = [ call EXCEPT
                       !.i = call.i + 1,
                       !.acc_a = call.acc_a \o PairRecords(ka, call.res[ka]),
                       !.acc_b = call.acc_b \o PairRecords(kb, call.res[kb]) ]
    /\ UNCHANGED detector

(* save_results after each of the two runs. *)
OrderSave ==
    /\ call.fn = "orders"
    /\ call.i = Len(call.a)
    /\ ~ call.saved
    /\ call' = [ call EXCEPT !.saved = TRUE,
                             !.rows_a = SortedApproaches(call.acc_a),
                             !.rows_b = SortedApproaches(call.acc_b) ]
    /\ UNCHANGED detector

NextOrder == OrderPair \/ OrderSave

SpecOrder == InitOrder /\ [][NextOrder]_vars

---------------------------------------------------------------------------
(* _remove_duplicate_minima called on a list, on the same candidates in    *)
(* another order, and then on its own output.                              *)

Reversed(s) == [ i \in 1..Len(s) |-> s[Len(s) + 1 - i] ]

Rotated(s) == IF s = << >> THEN << >> ELSE Append(Tail(s), Head(s))

(* Reversal and rotation generate every reordering of a list. *)
Reorderings(s) == { Reversed(s), Rotated(s) }

InitReorder ==
    /\ InitIdle
    /\ \E m \in MinimaLists : \E p \in Reorderings(m) :
         call = [ fn |-> "reorder", minima |-> m, permuted |-> p, step |-> 0,
                  unique |-> << >>, unique_permuted |-> << >>, again |-> << >> ]

DedupBoth ==
    /\ call.fn = "reorder"
    /\ call.step = 0
    /\ call' = [ call EXCEPT
                   !.step = 1,
                   !.unique = RemoveDuplicateMinima(call.minima, MergeWindow),
                   !.unique_permuted =
                       RemoveDuplicateMinima(call.permuted, MergeWindow) ]
    /\ UNCHANGED detector

DedupAgain ==
    /\ call.fn = "reorder"
    /\ call.step = 1
    /\ call' = [ call EXCEPT
                   !.step = 2,
                   !.again = RemoveDuplicateMinima(call.unique, MergeWindow) ]
    /\ UNCHANGED detector

NextReorder == DedupBoth \/ DedupAgain

SpecReorder == InitReorder /\ [][NextReorder]_vars

---------------------------------------------------------------------------
(* Properties *)

Records == Range(close_approaches)

(* The last scan found its target and ran to its end. *)
ScanReturned == pc = "idle" /\ ret.called /\ MsgNotFound \notin log

Duration == args.hours * Hour

(* The distance of the target and object k at an offset of the window. *)
PairDistance(k, x) ==
    DistanceAtOffset(satellites[args.target_catalog], satellites[k],
                     args.start_time, x)

(* Every offset of the scan window the model samples. *)
WindowSamples ==
    UNION { SampleOffsets(Segments(Duration)[i].start, Segments(Duration)[i].end) :
              i \in 1..Len(Segments(Duration)) }

(* The sampled offsets at which the distance to object k is strictly below *)
(* the distance at the samples before and after.                           *)
TrueMinima(k) ==
    { x \in WindowSamples :
        \A y \in WindowSamples :
          (y # x /\ \A z \in WindowSamples : ~(Min2(x, y) < z /\ z < Max2(x, y)))
             => PairDistance(k, x) < PairDistance(k, y) }

(* The catalog objects whose epoch parses and is not older than the        *)
(* maximum age at reference time ref (age in seconds against 86400 s/day). *)
FreshAt(ref) ==
    { k \in DOMAIN satellites :
        /\ satellites[k].epoch.form # "garbage"
        /\ ref - satellites[k].epoch.t <= max_epoch_age_days * 86400 }

(* Object k has an epoch older than the maximum age at the scan's start. *)
Stale(k) ==
    /\ satellites[k].epoch.form # "garbage"
    /\ args.start_time - satellites[k].epoch.t > max_epoch_age_days * 86400

SearchedSet == { searched[i].other : i \in 1..Len(searched) }

RECURSIVE SumMinima(_)
SumMinima(done) ==
    IF done = << >> THEN 0
    ELSE Len(Head(done).all_minima) + SumMinima(Tail(done))

(* C1: completeness of the search.  When a scan whose minimizer calls all  *)
(* succeeded has returned, every local minimum of a searched pair's        *)
(* distance inside the window with a value in [min_distance_km,            *)
(* threshold_km] and below the screening threshold has a CloseApproach of  *)
(* that pair with a TCA within the merge window of it.                     *)
C1_Completeness ==
    (ScanReturned /\ \A i \in 1..Len(searched) :
                       \A j \in 1..Len(searched[i].results) :
                         searched[i].results[j].ok)
    => \A i \in 1..Len(searched) :
         \A x \in TrueMinima(searched[i].other) :
           LET d == PairDistance(searched[i].other, x)
           IN  (InBand(d) /\ d < args.screening_threshold_km)
               => \E r \in Records :
                    /\ r.sat2_catalog = searched[i].other
                    /\ Abs(r.tca - (args.start_time + x)) <= MergeWindow

(* C2: every record held in close_approaches, and every record returned,   *)
(* has min_distance_km <= distance_km <= threshold_km.                     *)
C2_DistanceBand ==
    /\ \A r \in Records :
         min_distance_km <= r.distance_km /\ r.distance_km <= threshold_km
    /\ \A r \in Range(ret.value) :
         min_distance_km <= r.distance_km /\ r.distance_km <= threshold_km

(* C2 witness: a searched pair had a deduplicated candidate one metre      *)
(* above threshold_km, and the scan returned without a record of it.       *)
C2_Witness ==
    /\ ScanReturned
    /\ \E i \in 1..Len(searched) :
         \E j \in 1..Len(searched[i].unique_minima) :
           searched[i].unique_minima[j][2] = threshold_km + 1
    /\ \A r \in Records : r.distance_km <= threshold_km

(* C3: the alert level of every record is RED exactly below 10 km, YELLOW  *)
(* exactly in [10, 25) km and GREEN exactly in [25, 50) km.                *)
C3_AlertBands ==
    \A r \in Records :
      /\ AlertLevel(r.distance_km) = "RED" <=> r.distance_km < 10000
      /\ AlertLevel(r.distance_km) = "YELLOW"
            <=> (10000 <= r.distance_km /\ r.distance_km < 25000)
      /\ AlertLevel(r.distance_km) = "GREEN"
            <=> (25000 <= r.distance_km /\ r.distance_km < 50000)

(* C4: two candidates are merged into one entry exactly when their offsets *)
(* differ by at most the merge window, the entry kept being the one with   *)
(* the smaller distance (the earlier one on a tie).                        *)
C4_MergeWindow ==
    (call.fn = "_remove_duplicate_minima" /\ call.done /\ Len(call.minima) = 2)
    => LET a == call.minima[1]
           b == call.minima[2]
           lo == IF a[1] <= b[1] THEN a ELSE b
           hi == IF a[1] <= b[1] THEN b ELSE a
       IN  IF Abs(a[1] - b[1]) <= 300
           THEN call.unique = << IF hi[2] < lo[2] THEN hi ELSE lo >>
           ELSE call.unique = << lo, hi >>

C4_Witness ==
    /\ call.fn = "_remove_duplicate_minima"
    /\ call.done
    /\ call.minima = << << 100, 12000 >>, << 350, 8000 >> >>
    /\ call.unique = << << 350, 8000 >> >>

(* C5: a candidate below min_distance_km never yields a record, and every  *)
(* raw candidate, docked or not, is counted in total_minima_found.         *)
C5_DockedExcluded ==
    /\ \A i \in 1..Len(searched) :
         \A j \in 1..Len(searched[i].all_minima) :
           searched[i].all_minima[j][2] < min_distance_km
           => ~ \E r \in Records :
                  /\ r.sat2_catalog = searched[i].other
                  /\ r.tca = args.start_time + searched[i].all_minima[j][1]
    /\ (pc = "scanning" \/ ScanReturned)
         => total_minima_found = SumMinima(searched)

C5_Witness ==
    /\ ScanReturned
    /\ total_minima_found > 0
    /\ \E i \in 1..Len(searched) :
         \E j \in 1..Len(searched[i].all_minima) :
           searched[i].all_minima[j][2] < min_distance_km

(* C6: the TCA of every record lies inside the scan window. *)
C6_TcaInWindow ==
    \A r \in Records \cup Range(ret.value) :
      /\ args.start_time <= r.tca
      /\ r.tca <= args.start_time + args.hours * 3600

(* C6 witness: a record whose TCA is the boundary shared by two segments   *)
(* of a window that does not start at time 0.                              *)
C6_Witness ==
    /\ ScanReturned
    /\ args.start_time > 0
    /\ \E r \in Records : r.tca > args.start_time

C8_FilterExact ==
    [][ FilterCall =>
          /\ Range(filtered_satellites') = FreshAt(filter_ret'.reference_time)
          /\ Len(filtered_satellites') = Cardinality(FreshAt(filter_ret'.reference_time))
          /\ filter_ret'.value = Cardinality(FreshAt(filter_ret'.reference_time)) ]_vars

(* C8 witness: a scan added its stale target to filtered_satellites, and a *)
(* later filter call has dropped it again while keeping an object whose    *)
(* age is exactly the maximum.                                             *)
C8_Witness ==
    /\ ScanReturned
    /\ MsgExcluded \in log
    /\ args.target_catalog \notin Range(filtered_satellites)
    /\ \E k \in Range(filtered_satellites) :
         filter_ret.reference_time - satellites[k].epoch.t = 86400

(* The case of C9: the target is catalogued, the epoch filter excludes it, *)
(* and some other object passes the filter.                                *)
TargetExcluded ==
    /\ args.target_catalog \in DOMAIN satellites
    /\ args.target_catalog \notin FreshAt(args.start_time)
    /\ FreshAt(args.start_time) # { }

(* C9: in that case the scan does not abort: it warns, adds the target to  *)
(* its working set and searches it against every object that passed the   *)
(* filter.                                                                 *)
C9_ForceInclude ==
    (TargetExcluded /\ scans > 0)
    => /\ MsgExcluded \in log
       /\ MsgNotFound \notin log
       /\ pc = "scanning"
            => /\ args.target_catalog \in Range(filtered_satellites)
               /\ SearchedSet \cup Range(other_objects) = FreshAt(args.start_time)
       /\ pc = "idle"
            => /\ ret.called
               /\ SearchedSet = FreshAt(args.start_time)
               /\ Len(searched) = Cardinality(FreshAt(args.start_time))

C9_Witness ==
    /\ TargetExcluded
    /\ ScanReturned
    /\ Len(searched) = 2
    /\ satellites[args.target_catalog].epoch.form = "garbage"

(* C10 as stated: an object other than the target whose epoch is older     *)
(* than the maximum age is never searched and never named as sat2.         *)
C10_StaleNeverSearched ==
    /\ \A k \in SearchedSet \cup Range(other_objects) : ~ Stale(k)
    /\ \A r \in Records : ~ Stale(r.sat2_catalog)

(* C10 amended: the same, whenever at least one catalog object passes the  *)
(* epoch filter at the scan's start time.                                  *)
C10_StaleExcludedUnlessFallback ==
    FreshAt(args.start_time) # { }
    => /\ \A k \in SearchedSet \cup Range(other_objects) : ~ Stale(k)
       /\ \A r \in Records : ~ Stale(r.sat2_catalog)

C10_Witness ==
    /\ ScanReturned
    /\ FreshAt(args.start_time) # { }
    /\ Len(searched) > 0
    /\ \E k \in DOMAIN satellites : k # args.target_catalog /\ Stale(k)

(* The catalog objects other than the target. *)
CatalogOthers == DOMAIN satellites \ { args.target_catalog }

(* C11 as stated: whenever no object passing the epoch filter is left to   *)
(* pair with the target (nothing passes, or only the target does) and the  *)
(* target is catalogued, the scan searches the target against every other *)
(* object of the catalog and reports no error.                             *)
C11_FallbackWhenTooSmall ==
    (/\ scans > 0
     /\ args.target_catalog \in DOMAIN satellites
     /\ FreshAt(args.start_time) \subseteq { args.target_catalog })
    => /\ MsgNotFound \notin log
       /\ pc = "scanning" => SearchedSet \cup Range(other_objects) = CatalogOthers
       /\ pc = "idle" => SearchedSet = CatalogOthers

(* C11 amended: the scan falls back to the whole catalog exactly when no   *)
(* object at all passes the epoch filter; it then searches every other     *)
(* catalog object and prints neither an error nor a warning about the      *)
(* fallback.  When only the target passes the filter there is no fallback: *)
(* no pair is searched, "No other objects to check" is printed and the     *)
(* scan returns an empty list.                                             *)
C11_FallbackOnlyWhenEmpty ==
    (scans > 0 /\ args.target_catalog \in DOMAIN satellites)
    => /\ FreshAt(args.start_time) = { }
            => /\ log \subseteq { MsgNoOthers }
               /\ MsgNoOthers \in log <=> CatalogOthers = { }
               /\ pc = "scanning"
                    => SearchedSet \cup Range(other_objects) = CatalogOthers
               /\ pc = "idle"
                    => /\ SearchedSet = CatalogOthers
                       /\ Len(searched) = Cardinality(CatalogOthers)
       /\ FreshAt(args.start_time) = { args.target_catalog }
            => /\ log = { MsgNoOthers }
               /\ searched = << >>
               /\ other_objects = << >>
               /\ close_approaches = << >>
               /\ pc = "idle" => ret = [ called |-> TRUE, value |-> << >> ]

(* C11 witness: nothing passed the filter and the scan searched the two    *)
(* other objects of the catalog, both stale or unparsable.                 *)
C11_Witness ==
    /\ ScanReturned
    /\ FreshAt(args.start_time) = { }
    /\ Len(searched) = 2
    /\ log = { }

PropagationFails(k, x) ==
    \/ ~ Propagate(satellites[args.target_catalog], args.start_time + x).ok
    \/ ~ Propagate(satellites[k], args.start_time + x).ok

(* The sampled offsets of the window at which propagation fails for k. *)
FailingSamples(k) == { x \in WindowSamples : PropagationFails(k, x) }

(* C13: for every searched pair, the distance function is +infinity at     *)
(* every sampled time where a propagation fails, no candidate of the pair  *)
(* sits at such a time or has an infinite distance, and every segment of   *)
(* the pair got its minimizer call: the failure did not leave the search.  *)
C13_FailureIsInfinity ==
    \A i \in 1..Len(searched) :
      LET k == searched[i].other
      IN  /\ \A x \in FailingSamples(k) : PairDistance(k, x) = Infinity
          /\ \A j \in 1..Len(searched[i].all_minima) :
               /\ ~ PropagationFails(k, searched[i].all_minima[j][1])
               /\ searched[i].all_minima[j][2] < args.screening_threshold_km
               /\ searched[i].all_minima[j][2] < Infinity
          /\ Len(searched[i].results) = Len(Segments(Duration))
          /\ pc \in { "scanning", "idle" }

(* C13 witness: a returned scan searched a pair with a failing sample in   *)
(* a segment that still gave a candidate, next to the failing sample.      *)
C13_Witness ==
    /\ ScanReturned
    /\ \E i \in 1..Len(searched) :
         \E x \in FailingSamples(searched[i].other) :
           \E j \in 1..Len(searched[i].all_minima) :
             Abs(searched[i].all_minima[j][1] - x) = Near

(* C14: every later scan of one detector with the same catalog, target,    *)
(* start time and parameters, the minimizer answering each call as it did  *)
(* before, returns the same records as the first scan, each once: none is  *)
(* carried over from the scan before.                                      *)
C14_Idempotent ==
    \A i \in 1..Len(returned) :
      /\ Range(returned[i]) = Range(returned[1])
      /\ Len(returned[i]) = Len(returned[1])
      /\ Cardinality(Range(returned[i])) = Len(returned[i])

(* C14 witness: a second scan has returned, with two records or more. *)
C14_Witness ==
    /\ Len(returned) >= 2
    /\ Len(returned[2]) >= 2

(* The priority of a distance: RED 0, YELLOW 1, GREEN 2. *)
Priority(distance) ==
    IF distance < 10000 THEN 0 ELSE IF distance < 25000 THEN 1 ELSE 2

(* Sequence rows is in non-decreasing order of (priority, distance). *)
InKeyOrder(rows) ==
    \A i \in 1..(Len(rows) - 1) :
      \/ Priority(rows[i].distance_km) < Priority(rows[i + 1].distance_km)
      \/ /\ Priority(rows[i].distance_km) = Priority(rows[i + 1].distance_km)
         /\ rows[i].distance_km <= rows[i + 1].distance_km

Occurrences(x, s) == Cardinality({ i \in 1..Len(s) : s[i] = x })

IsPermutation(s, t) ==
    /\ Len(s) = Len(t)
    /\ \A x \in Range(s) \cup Range(t) : Occurrences(x, s) = Occurrences(x, t)

(* C15 as stated: the rows written by save_results and the rows listed by  *)
(* print_summary are in key order and a permutation of close_approaches.   *)
C15_ReportsSortedPermutation ==
    call.fn \in { "save_results", "print_summary" }
    => /\ InKeyOrder(call.rows)
       /\ IsPermutation(call.rows, close_approaches)

(* C15 amended: the rows written by save_results are in key order and a    *)
(* permutation of close_approaches; print_summary lists, in key order, the *)
(* first 20 records of that order (all of them when there are at most 20), *)
(* each at most as often as it occurs in close_approaches.                 *)
C15_SortedAndTopTwenty ==
    /\ call.fn = "save_results"
         => /\ InKeyOrder(call.rows)
            /\ IsPermutation(call.rows, close_approaches)
    /\ call.fn = "print_summary"
         => /\ InKeyOrder(call.rows)
            /\ Len(call.rows) = IF Len(close_approaches) <= 20
                                THEN Len(close_approaches) ELSE 20
            /\ \A x \in Range(call.rows) :
                 Occurrences(x, call.rows) <= Occurrences(x, close_approaches)
            /\ \A i \in 1..Len(close_approaches) :
                 LET x == close_approaches[i]
                 IN  Occurrences(x, call.rows) < Occurrences(x, close_approaches)
                     => \A j \in 1..Len(call.rows) :
                          InKeyOrder(<< call.rows[j], x >>)
            /\ Len(close_approaches) <= 20
                 => IsPermutation(call.rows, close_approaches)

(* C15 witness: save_results wrote 21 records that were not in key order   *)
(* in close_approaches, among them two RED records at the same distance.   *)
C15_Witness ==
    /\ call.fn = "save_results"
    /\ Len(call.rows) = 21
    /\ ~ InKeyOrder(close_approaches)
    /\ call.rows[1].distance_km = 100
    /\ \E i \in 1..20 : /\ call.rows[i].distance_km = 5000
                        /\ call.rows[i + 1].distance_km = 5000

(* What a scan reports as its statistics: the filter's skip count, the     *)
(* number of raw minima, the smallest non-docked distance and the number   *)
(* of close approaches.                                                    *)
Statistics ==
    << skipped, total_minima_found, min_distance_seen, Len(close_approaches) >>

(* A step of the scan in which one more pair is processed. *)
PairStep == pc = "scanning" /\ Len(searched') = Len(searched) + 1

(* Wherever both propagations succeed on the samples of the window, object *)
(* k is not below the screening threshold.                                 *)
NoCloseSample(k) ==
    \A x \in WindowSamples \ FailingSamples(k) :
      Norm(Propagate(satellites[args.target_catalog], args.start_time + x).pos,
           Propagate(satellites[k], args.start_time + x).pos)
        >= args.screening_threshold_km

FirstSmallest(s) ==
    CHOOSE m \in 1..Len(s) :
      /\ \A j \in 1..Len(s) : s[m][2] <= s[j][2]
      /\ \A j \in 1..(m - 1) : s[j][2] > s[m][2]

(* C17: grouping is by chaining.  When every candidate, taken in order of  *)
(* offset, is within the merge window of the candidate before it, the      *)
(* output is one entry, the candidate with the smallest distance (the      *)
(* earliest on a tie), however far the last is from the first; and in      *)
(* general the output has one entry more than there are consecutive        *)
(* candidates further apart than the merge window.                         *)
C17_Chaining ==
    (call.fn = "_remove_duplicate_minima" /\ call.done /\ call.minima # << >>)
    => LET s    == SortByOffset(call.minima)
           gaps == { i \in 1..(Len(s) - 1) : s[i + 1][1] - s[i][1] > 300 }
       IN  /\ Len(call.unique) = 1 + Cardinality(gaps)
           /\ gaps = { } => call.unique = << s[FirstSmallest(s)] >>

(* C17 witness: candidates at 0, 250 and 500 s gave one entry, the earlier *)
(* of the two that share the smallest distance.                            *)
C17_Witness ==
    /\ call.fn = "_remove_duplicate_minima"
    /\ call.done
    /\ call.minima = << << 500, 8000 >>, << 0, 12000 >>, << 250, 8000 >> >>
    /\ call.unique = << << 250, 8000 >> >>

(* The objects a scan has to pair with the target: those that passed the   *)
(* epoch filter, or the whole catalog when none did, without the target.   *)
WorkingOthers ==
    (IF FreshAt(args.start_time) = { } THEN DOMAIN satellites
     ELSE FreshAt(args.start_time)) \ { args.target_catalog }

(* The records a pair gives by itself: one for each of its deduplicated    *)
(* candidates with a distance in the band, in order.                       *)
RecordsOfPair(p) ==
    LET inband == SelectSeq(p.unique_minima,
                    LAMBDA m : min_distance_km <= m[2] /\ m[2] <= threshold_km)
    IN  [ j \in 1..Len(inband) |->
            [ tca |-> args.start_time + inband[j][1],
              sat1_catalog |-> args.target_catalog,
              sat2_catalog |-> p.other,
              distance_km |-> inband[j][2] ] ]

(* The scan of a catalogued target keeps to its loop: no object is         *)
(* processed twice, every processed pair got one minimizer call for each   *)
(* segment whatever failed, the records are those each pair gives by       *)
(* itself, and at the return every object to pair has been processed.      *)
LoopDiscipline ==
    (scans > 0 /\ args.target_catalog \in DOMAIN satellites)
    => /\ \A i, j \in 1..Len(searched) :
            searched[i].other = searched[j].other => i = j
       /\ SearchedSet \cup Range(other_objects) \subseteq WorkingOthers
       /\ SearchedSet \cap Range(other_objects) = { }
       /\ \A i \in 1..Len(searched) :
            Len(searched[i].results)
              = (IF args.hours \div 4 >= 1 THEN args.hours \div 4 ELSE 1)
       /\ close_approaches
            = Concat([ i \in 1..Len(searched) |-> RecordsOfPair(searched[i]) ])
       /\ pc = "idle" => /\ SearchedSet = WorkingOthers
                         /\ ret = [ called |-> TRUE, value |-> close_approaches ]

(* C18: a scan of a catalogued target always runs to completion, whatever  *)
(* fails on the way: every started scan returns, and LoopDiscipline holds  *)
(* all along.                                                              *)
C18_RunsToCompletion ==
    /\ [] LoopDiscipline
    /\ (pc = "scanning") ~> ScanReturned

(* C18 witness: a scan returned after two pairs; the first pair had a      *)
(* minimizer failure and gave no record, the second pair had a propagation *)
(* failure among its samples and gave a record.                            *)
C18_Witness ==
    /\ ScanReturned
    /\ Len(searched) = 2
    /\ \E j \in 1..Len(searched[1].results) : ~ searched[1].results[j].ok
    /\ RecordsOfPair(searched[1]) = << >>
    /\ FailingSamples(searched[2].other) # { }
    /\ RecordsOfPair(searched[2]) # << >>

(* C19: a segment on which the minimizer failed contributes no candidate,  *)
(* and every segment of the pair is searched all the same: each searched   *)
(* pair has one minimizer answer for each segment, an answer that did not  *)
(* fail lies in its own segment, and the candidates of the pair are        *)
(* exactly the screened answers of the segments that did not fail, in      *)
(* segment order.                                                          *)
C19_FailedSegmentSkipped ==
    \A i \in 1..Len(searched) :
        LET p    == searched[i]
            segs == Segments(Duration)
            good == SelectSeq(p.results,
                      LAMBDA r : r.ok /\ r.fun < args.screening_threshold_km)
        IN  /\ Len(p.results) = Len(segs)
            /\ \A j \in 1..Len(p.results) :
                  p.results[j].ok =>
                      /\ segs[j].start <= p.results[j].x
                      /\ p.results[j].x <= segs[j].end
            /\ Len(p.all_minima) = Len(good)
            /\ \A j \in 1..Len(good) :
                  p.all_minima[j] = << good[j].x, good[j].fun >>

(* C19 witness: the minimizer failed on the first segment of a pair and    *)
(* the second segment gave the one candidate of the pair.                  *)
C19_Witness ==
    \E i \in 1..Len(searched) :
        /\ Len(searched[i].results) = 2
        /\ ~ searched[i].results[1].ok
        /\ searched[i].results[2].ok
        /\ searched[i].all_minima
             = << << searched[i].results[2].x, searched[i].results[2].fun >> >>
        /\ searched[i].results[2].x > Segments(Duration)[2].start

(* Propagation of the target or of the other object fails at the TCA of    *)
(* the candidate at `offset`.                                              *)
TcaFails(other, offset) ==
    \/ ~ Propagate(satellites[args.target_catalog], args.start_time + offset).ok
    \/ ~ Propagate(satellites[other], args.start_time + offset).ok

(* The distance of the pair at the TCA of the candidate at `offset`. *)
TcaDistance(other, offset) ==
    Norm(Propagate(satellites[args.target_catalog], args.start_time + offset).pos,
         Propagate(satellites[other], args.start_time + offset).pos)

(* The records of the candidates of a pair whose TCA propagates, as if the *)
(* failing candidates had never been in the list.                          *)
RecordsWithoutFailed(pair) ==
    LET kept == SelectSeq(pair.unique_minima,
                  LAMBDA m : /\ ~ TcaFails(pair.other, m[1])
                             /\ min_distance_km <= TcaDistance(pair.other, m[1])
                             /\ TcaDistance(pair.other, m[1]) <= threshold_km)
    IN  [ j \in 1..Len(kept) |->
            [ tca |-> args.start_time + kept[j][1],
              sat1_catalog |-> args.target_catalog,
              sat2_catalog |-> pair.other,
              distance_km |-> TcaDistance(pair.other, kept[j][1]) ] ]

(* C20: a candidate whose TCA fails to propagate gives no record and       *)
(* leaves close_approaches as it is, and the other candidates of the pair  *)
(* and the later pairs are classified all the same: after each pair,       *)
(* close_approaches holds, pair after pair, the records of the candidates  *)
(* that propagate, and no record at an instant where propagation fails.    *)
C20_FailedTcaDropped ==
    call.fn = "classify" =>
       /\ close_approaches
            = Concat([ k \in 1..call.i |-> RecordsWithoutFailed(call.pairs[k]) ])
       /\ \A r \in Range(close_approaches) :
            ~ TcaFails(r.sat2_catalog, r.tca - args.start_time)

(* C20 witness: both pairs are done; the first candidate of the first pair *)
(* failed at its TCA, a later candidate of that pair gave a record, and    *)
(* the second pair gave a record after it.                                 *)
C20_Witness ==
    /\ call.fn = "classify"
    /\ call.i = 2
    /\ Len(call.pairs[1].unique_minima) >= 2
    /\ TcaFails(call.pairs[1].other, call.pairs[1].unique_minima[1][1])
    /\ Len(close_approaches) >= 2
    /\ close_approaches[1].sat2_catalog = call.pairs[1].other
    /\ close_approaches[Len(close_approaches)].sat2_catalog = call.pairs[2].other

(* The catalog objects whose epoch is no ISO timestamp. *)
Unparsable == { k \in DOMAIN satellites : satellites[k].epoch.form = "garbage" }

(* C21: an epoch that does not parse costs the object its place and adds   *)
(* one to the skipped count, and the filter goes on: after every run of    *)
(* the filter, by itself or at the start of a scan, the number it returns  *)
(* plus the skipped count is the catalog size, the skipped objects are the *)
(* unparsable and the stale ones, no unparsable object was retained by the *)
(* filter, and every fresh object is retained wherever it stands.          *)
C21_UnparsableSkipped ==
    [][ (FilterCall \/ StartScan) =>
          LET ref == filter_ret'.reference_time
          IN  /\ filter_ret'.value + skipped' = Cardinality(DOMAIN satellites)
              /\ filter_ret'.value = Cardinality(FreshAt(ref))
              /\ skipped' >= Cardinality(Unparsable)
              /\ Range(filtered_satellites') \cap Unparsable
                    \subseteq (IF StartScan THEN { args.target_catalog } ELSE { })
              /\ FreshAt(ref) \subseteq Range(filtered_satellites')
      ]_vars

(* C21 witness: the filter ran over a catalog of three whose first object  *)
(* has an unparsable epoch; it retained the two objects after it and       *)
(* counted one skipped.                                                    *)
C21_Witness ==
    /\ DOMAIN satellites = { 1, 2, 3 }
    /\ Unparsable = { 1 }
    /\ filtered_satellites = << 2, 3 >>
    /\ filter_ret.value = 2
    /\ skipped = 1

(* The distances of the raw candidates of all searched pairs that are not  *)
(* below min_distance_km.                                                  *)
RawNonDocked ==
    { d \in UNION { { searched[i].all_minima[j][2] :
                        j \in 1..Len(searched[i].all_minima) } :
                    i \in 1..Len(searched) } : d >= min_distance_km }

RECURSIVE SumUnique(_)
SumUnique(done) ==
    IF done = << >> THEN 0
    ELSE Len(Head(done).unique_minima) + SumUnique(Tail(done))

(* C22: the statistics of a scan come from the raw candidates: when the    *)
(* scan has returned, total_minima_found is the number of candidates the   *)
(* segmented search returned, summed over the pairs, and min_distance_seen *)
(* is the smallest raw distance not below min_distance_km, or infinity     *)
(* when there is none.                                                     *)
C22_StatisticsFromRaw ==
    ScanReturned =>
       /\ total_minima_found = SumMinima(searched)
       /\ min_distance_seen
            = (IF RawNonDocked = { } THEN Infinity ELSE SetMin(RawNonDocked))

(* C22 witness: a returned scan whose count exceeds the number of          *)
(* deduplicated candidates and whose minimum distance is that of a raw     *)
(* candidate that was merged away and gave no record.                      *)
C22_Witness ==
    /\ ScanReturned
    /\ total_minima_found > SumUnique(searched)
    /\ min_distance_seen < Infinity
    /\ \A i \in 1..Len(searched) :
         \A j \in 1..Len(searched[i].unique_minima) :
            searched[i].unique_minima[j][2] # min_distance_seen
    /\ \A r \in Records : r.distance_km # min_distance_seen

(* C23 as stated: whatever the two orders, the two runs give the same set  *)
(* of records and save_results writes the same sequence of rows.           *)
C23_OrderIrrelevant ==
    (call.fn = "orders" /\ call.saved)
    => /\ Range(call.acc_a) = Range(call.acc_b)
       /\ call.rows_a = call.rows_b

(* C23 amended: the two runs give the same set of records, and the rows    *)
(* save_results writes are in both runs the same records in key order,     *)
(* with the same key at every position; the two sequences are equal when   *)
(* no two records have the same alert level and distance.  Records with    *)
(* equal keys are written in the order the scan produced them.             *)
C23_OrderUpToTies ==
    (call.fn = "orders" /\ call.saved)
    => /\ Range(call.acc_a) = Range(call.acc_b)
       /\ IsPermutation(call.acc_a, call.acc_b)
       /\ IsPermutation(call.rows_a, call.acc_a)
       /\ IsPermutation(call.rows_b, call.acc_b)
       /\ InKeyOrder(call.rows_a)
       /\ InKeyOrder(call.rows_b)
       /\ \A j \in 1..Len(call.rows_a) :
            call.rows_a[j].distance_km = call.rows_b[j].distance_km
       /\ (\A r1, r2 \in Range(call.acc_a) :
              r1.distance_km = r2.distance_km => r1 = r2)
          => call.rows_a = call.rows_b
       /\ \A i, j \in 1..Len(call.acc_a) :
            (i < j /\ call.acc_a[i].distance_km = call.acc_a[j].distance_km)
            => \E m, n \in 1..Len(call.rows_a) :
                  /\ m < n
                  /\ call.rows_a[m] = call.acc_a[i]
                  /\ call.rows_a[n] = call.acc_a[j]

(* C23 witness: two runs over the same pairs in opposite orders found two  *)
(* records of equal alert level and distance, and save_results wrote them  *)
(* in a different order in each run.                                       *)
C23_Witness ==
    /\ call.fn = "orders"
    /\ call.saved
    /\ call.a # call.b
    /\ Range(call.acc_a) = Range(call.acc_b)
    /\ \E j \in 1..(Len(call.rows_a) - 1) :
         /\ call.rows_a[j].distance_km = call.rows_a[j + 1].distance_km
         /\ call.rows_a[j] = call.rows_b[j + 1]
         /\ call.rows_a[j + 1] = call.rows_b[j]
         /\ call.rows_a[j] # call.rows_a[j + 1]

(* Segment j of searched pair p contributes: the minimizer succeeded on it *)
(* with a value strictly below the screening threshold.                    *)
Contributes(p, j) ==
    p.results[j].ok /\ p.results[j].fun < args.screening_threshold_km

(* C24: the raw candidates of a pair are, one for one, the segments whose  *)
(* minimizer call succeeded with a value strictly below the screening      *)
(* threshold: a value equal to the threshold is not recorded, a segment    *)
(* gives at most one candidate, and a pair at most as many as segments.    *)
C24_ScreeningStrict ==
    \A i \in 1..Len(searched) :
        LET p == searched[i]
            contributing == { j \in 1..Len(p.results) : Contributes(p, j) }
        IN  /\ Len(p.all_minima) = Cardinality(contributing)
            /\ Len(p.all_minima) <= NumSegments(Duration)
            /\ \A j \in contributing :
                 << p.results[j].x, p.results[j].fun >> \in Range(p.all_minima)
            /\ \A m \in Range(p.all_minima) :
                 /\ m[2] < args.screening_threshold_km
                 /\ \E j \in contributing :
                      m = << p.results[j].x, p.results[j].fun >>

(* C24 witness: the minimizer succeeded on a segment with a value equal to *)
(* the screening threshold and the pair has no candidate at that offset,   *)
(* while its other segment gave one.                                       *)
C24_Witness ==
    \E i \in 1..Len(searched) :
        /\ Len(searched[i].all_minima) = 1
        /\ \E j \in 1..Len(searched[i].results) :
             /\ searched[i].results[j].ok
             /\ searched[i].results[j].fun = args.screening_threshold_km
             /\ searched[i].all_minima[1][1] # searched[i].results[j].x

(* C25: whatever the input, the output of _remove_duplicate_minima takes   *)
(* its entries from the input, each no more often than the input holds it, *)
(* in strictly increasing offset order with more than the merge window     *)
(* between any two of them, and it is empty exactly when the input is.     *)
C25_DedupOutputShape ==
    (call.fn = "_remove_duplicate_minima" /\ call.done)
    => /\ \A m \in Range(call.unique) :
            Occurrences(m, call.unique) <= Occurrences(m, call.minima)
       /\ \A i, j \in 1..Len(call.unique) :
            i < j => call.unique[j][1] - call.unique[i][1] > MergeWindow
       /\ (call.unique = << >>) <=> (call.minima = << >>)

(* C25 witness: three candidates given out of offset order came out as    *)
(* two entries in offset order, 301 s apart.                               *)
C25_Witness ==
    /\ call.fn = "_remove_duplicate_minima"
    /\ call.done
    /\ call.minima = << << 401, 8000 >>, << 0, 12000 >>, << 100, 12000 >> >>
    /\ call.unique = << << 0, 12000 >>, << 401, 8000 >> >>

(* The candidates of list s have pairwise distinct offsets. *)
DistinctOffsets(s) == \A i, j \in 1..Len(s) : s[i][1] = s[j][1] => i = j

(* C26: _remove_duplicate_minima applied to its own output returns it      *)
(* unchanged, and two lists holding the same candidates in different       *)
(* orders, with pairwise distinct offsets, give the same output.           *)
C26_IdempotentOrderFree ==
    call.fn = "reorder" =>
       /\ call.step = 2 => call.again = call.unique
       /\ (call.step >= 1 /\ DistinctOffsets(call.minima))
            => call.unique_permuted = call.unique

(* C26 witness: three candidates with distinct offsets, two of them within *)
(* the merge window, and their reversal gave the same two entries, and the *)
(* second application left these as they were.                             *)
C26_Witness ==
    /\ call.fn = "reorder"
    /\ call.step = 2
    /\ call.minima = << << 401, 8000 >>, << 100, 12000 >>, << 0, 8000 >> >>
    /\ call.permuted = << << 0, 8000 >>, << 100, 12000 >>, << 401, 8000 >> >>
    /\ call.unique = << << 0, 8000 >>, << 401, 8000 >> >>
    /\ call.unique_permuted = call.unique
    /\ call.again = call.unique

(* C27: deduplication hides no reportable event of a pair.  When a scan    *)
(* has returned, every searched pair with a raw candidate whose distance   *)
(* is in [min_distance_km, threshold_km], and whose TCA propagates, has at *)
(* least one CloseApproach, whatever else is in the candidate's merge      *)
(* group.                                                                  *)
C27_NoHiddenEvent ==
    ScanReturned =>
      \A i \in 1..Len(searched) :
        (\E j \in 1..Len(searched[i].all_minima) :
            /\ InBand(searched[i].all_minima[j][2])
            /\ ~ TcaFails(searched[i].other, searched[i].all_minima[j][1]))
        => \E r \in Records : r.sat2_catalog = searched[i].other

(* C28: every record of a scan, held or returned, has a distance strictly  *)
(* below the screening threshold and not below min_distance_seen; so with  *)
(* threshold_km at or above the screening threshold no record has a        *)
(* distance from the screening threshold up to threshold_km.               *)
C28_BelowScreening ==
    \A r \in Records \cup Range(ret.value) :
        /\ r.distance_km < args.screening_threshold_km
        /\ min_distance_seen <= r.distance_km
        /\ threshold_km >= args.screening_threshold_km
             => ~ (/\ args.screening_threshold_km <= r.distance_km
                   /\ r.distance_km <= threshold_km)

(* C28 witness: with the screening threshold equal to threshold_km, a scan *)
(* returned a record at min_distance_seen, and for another answer of the   *)
(* minimizer, at exactly the screening threshold, it has none.             *)
C28_Witness ==
    /\ ScanReturned
    /\ threshold_km >= args.screening_threshold_km
    /\ \E r \in Range(ret.value) : r.distance_km = min_distance_seen
    /\ \E i \in 1..Len(searched) :
         \E j \in 1..Len(searched[i].results) :
            /\ searched[i].results[j].ok
            /\ searched[i].results[j].fun = args.screening_threshold_km
            /\ InBand(searched[i].results[j].fun)

(* C29: every record of a scan has the target as its first object and as  *)
(* its second an object of the working set other than the target, and the *)
(* target is never among the objects it is paired with.                    *)
C29_PairsWithOthers ==
    /\ \A r \in Records \cup Range(ret.value) :
         /\ r.sat1_catalog = args.target_catalog
         /\ r.sat2_catalog # args.target_catalog
         /\ r.sat2_catalog \in WorkingOthers
    /\ args.target_catalog \notin SearchedSet \cup Range(other_objects)

(* C29 witness: a scan whose target passed the filter, and so stood in the *)
(* working set among the others, returned records with two other objects. *)
C29_Witness ==
    /\ ScanReturned
    /\ args.target_catalog \in FreshAt(args.start_time)
    /\ Len(searched) = 2
    /\ { r.sat2_catalog : r \in Range(ret.value) } = WorkingOthers

(* C30: no step of the detector changes the catalog.  A scan that adds its *)
(* excluded target back adds it to filtered_satellites, and a scan that    *)
(* falls back to the whole catalog leaves filtered_satellites empty and    *)
(* the catalog with the entries it had.                                    *)
C30_CatalogUnchanged ==
    [][ /\ satellites' = satellites
        /\ (StartScan /\ TargetExcluded)
             => /\ args.target_catalog \in Range(filtered_satellites')
                /\ Range(filtered_satellites')
                     = FreshAt(args.start_time) \cup { args.target_catalog }
        /\ (StartScan /\ FreshAt(args.start_time) = { })
             => filtered_satellites' = << >>
      ]_vars

(* C30 witness: a scan with a stale target and one fresh object returned;  *)
(* filtered_satellites holds the fresh object and the target, and the      *)
(* catalog still holds a third, stale object.                              *)
C30_Witness ==
    /\ ScanReturned
    /\ MsgExcluded \in log
    /\ Stale(args.target_catalog)
    /\ Len(filtered_satellites) = 2
    /\ args.target_catalog \in Range(filtered_satellites)
    /\ Cardinality(DOMAIN satellites) = 3
    /\ \E k \in DOMAIN satellites : k \notin Range(filtered_satellites)

=============================================================================
